---- MODULE Spec2Model ----
(***************************************************************************)
(* State-machine model of rllib/env/remote_base_env.py: RemoteBaseEnv (the *)
(* dispatcher over a pool of remote sub-environment actors) together with  *)
(* the _RemoteSingleAgentEnv / _RemoteMultiAgentEnv wrapper actors.        *)
(*                                                                         *)
(* Python values are modelled structurally: a dict is a function over its  *)
(* keys, a tuple is a sequence, an exception is the record [exc |-> name]. *)
(* ray is modelled by its four primitives: a remote call allocates an      *)
(* object ref whose object is "running" until the actor finishes the call, *)
(* ray.wait returns the refs whose object is no longer running, ray.get    *)
(* returns the value or raises the stored exception.  Object refs are     *)
(* opaque tokens: the model names a pending ref by its position in the     *)
(* insertion-ordered dict self.pending, so pending[r] is the actor the     *)
(* dict maps ref r to and objects[r] is the ray object behind ref r.       *)
(***************************************************************************)
EXTENDS Integers, Sequences, FiniteSets, TLC

\* Largest num_envs / len(existing_envs) handed to the constructor.
MaxEnvs == 2
\* Largest number of worker replacements in one behaviour.
MaxRestarts == 1
\* Largest number of unconsumed results with a wrong shape at any time.
MaxBadReturns == 1

VARIABLES
  num_envs,                         \* self.num_envs
  multiagent,                       \* self.multiagent
  make_env_creates_actors,          \* self.make_env_creates_actors
  restart_failed_sub_environments,  \* self.restart_failed_sub_environments
  worker,                           \* self.worker is not None
  _observation_space,               \* self._observation_space
  _action_space,                    \* self._action_space
  actors,                           \* self.actors: list of actor handles
  pending,                          \* self.pending: ordered dict obj_ref -> actor
  objects,                          \* ray object store: what each pending obj_ref resolves to
  terminated_actors,                \* actors that received __ray_terminate__
  callbacks,                        \* on_sub_environment_created invocations
  calls,                            \* the calls try_restart made in the step just taken
  pc,                               \* "idle", "poll" (inside poll's wait loop) or "failed"
  ret,                              \* what the last finished call returned or raised
  round                             \* the last wait round of poll(): ready refs and how each was handled

config == <<num_envs, multiagent, make_env_creates_actors, restart_failed_sub_environments,
           worker, _observation_space, _action_space>>
vars == <<num_envs, multiagent, make_env_creates_actors, restart_failed_sub_environments,
          worker, _observation_space, _action_space,
          actors, pending, objects, terminated_actors, callbacks, calls, pc, ret, round>>

-----------------------------------------------------------------------------
(* Python values *)

_DUMMY_AGENT_ID == "agent0"
ALL == "__all__"
AgentA == "a1"
EmptyDict == <<>>
None == "None"
\* The spaces of the wrapped environments (assumed uniform across the pool).
ObservationSpace == "observation_space"
ActionSpace == "action_space"
\* One agent's action: an opaque value.
Action == [action |-> "act"]
ASYNC_RESET_RETURN == "async_reset_return"

\* {key: value}
Dict1(k, v) == k :> v

\* Exceptions the model distinguishes.
WorkerError(actor) == [exc |-> "RayError", actor |-> actor]  \* raised by ray.get: the call on `actor` failed
ValueErrorNotInList == [exc |-> "ValueError"] \* list.index(x): x not in list
AssertionError == [exc |-> "AssertionError"]  \* the arity checks of poll()
UnpackError == [exc |-> "UnpackValueError"]   \* tuple unpacking of a wrong-length tuple
IndexError == [exc |-> "IndexError"]
FactoryError == [exc |-> "FactoryError"]      \* make_env raised
NoExc == [exc |-> "none"]

\* What the wrapped gymnasium environment hands back.  A well-behaved env
\* returns a 2-tuple from reset() and a 5-tuple from step(); an env written
\* against the old gym API returns a 4-tuple from step() and a bare
\* observation (no tuple) from reset().
Tup(t) == [tuple |-> TRUE, v |-> t]
Bare(x) == [tuple |-> FALSE, v |-> <<x>>]

RawReset(multi) ==
  IF multi THEN Tup(<<Dict1(AgentA, "o"), Dict1(AgentA, "i")>>)
           ELSE Tup(<<"o", "i">>)

RawStep(multi) ==
  IF multi THEN Tup(<<Dict1(AgentA, "o"), Dict1(AgentA, 1),
                      Dict1(AgentA, TRUE) @@ Dict1(ALL, TRUE),
                      Dict1(AgentA, FALSE) @@ Dict1(ALL, FALSE),
                      Dict1(AgentA, "i")>>)
           ELSE Tup(<<"o", 1, TRUE, FALSE, "i">>)

RawStepOld(multi) ==
  IF multi THEN Tup(<<Dict1(AgentA, "o"), Dict1(AgentA, 1),
                      Dict1(AgentA, TRUE) @@ Dict1(ALL, TRUE),
                      Dict1(AgentA, "i")>>)
           ELSE Tup(<<"o", 1, TRUE, "i">>)

RawResetOld(multi) ==
  IF multi THEN Bare(Dict1(AgentA, "o")) ELSE Bare("o")

\* The env results a call of `method` can produce (besides raising).
EnvResults(multi, method) ==
  IF method = "reset" THEN {RawReset(multi), RawResetOld(multi)}
                      ELSE {RawStep(multi), RawStepOld(multi)}

\* The action map send_actions receives for one env_id.
ActionMap(multi) ==
  IF multi THEN Dict1(AgentA, Action) ELSE Dict1(_DUMMY_AGENT_ID, Action)

-----------------------------------------------------------------------------
(* ray objects *)

\* The object behind an obj_ref: the remote call (method, arg), whether it is
\* still running, and what ray.get returns (val) or raises (e).  raw records
\* what the wrapped env returned to the actor (NoRaw: it returned nothing).
NoRaw == [tuple |-> FALSE, v |-> <<>>]

Running(method, arg) ==
  [st |-> "running", method |-> method, arg |-> arg, val |-> Tup(<<>>), e |-> NoExc, raw |-> NoRaw]
Done(o, value, raw) ==
  [st |-> "value", method |-> o.method, arg |-> o.arg, val |-> value, e |-> NoExc, raw |-> raw]
Failed(o, exc, raw) ==
  [st |-> "exc", method |-> o.method, arg |-> o.arg, val |-> Tup(<<>>), e |-> exc, raw |-> raw]

-----------------------------------------------------------------------------
(* The wrapper actors *)

\* _RemoteMultiAgentEnv.reset: `obs, info = self.env.reset(...)`, then the
\* reward/terminated/truncated dummies.  Returns a result or an exception.
RemoteMultiAgentEnv_reset(raw) ==
  IF raw.tuple /\ Len(raw.v) = 2
    THEN [ok |-> TRUE,
          val |-> Tup(<<raw.v[1], [agent_id \in DOMAIN raw.v[1] |-> 0],
                        Dict1(ALL, FALSE), Dict1(ALL, FALSE), raw.v[2]>>)]
    ELSE [ok |-> FALSE, val |-> Tup(<<>>)]

\* _RemoteMultiAgentEnv.step: `return self.env.step(action_dict)`.
RemoteMultiAgentEnv_step(raw) == [ok |-> TRUE, val |-> raw]

\* _RemoteSingleAgentEnv.reset: indexes [0] and [1] of the env's return value.
RemoteSingleAgentEnv_reset(raw) ==
  IF raw.tuple /\ Len(raw.v) >= 2
    THEN [ok |-> TRUE,
          val |-> Tup(<<Dict1(_DUMMY_AGENT_ID, raw.v[1]), Dict1(_DUMMY_AGENT_ID, 0),
                        Dict1(ALL, FALSE), Dict1(ALL, FALSE),
                        Dict1(_DUMMY_AGENT_ID, raw.v[2])>>)]
    ELSE [ok |-> FALSE, val |-> Tup(<<>>)]

\* Mutant of RemoteSingleAgentEnv_step: the two `["__all__"] = ...` lines are
\* missing.
RemoteSingleAgentEnv_step_no_all(raw) ==
  IF raw.tuple /\ Len(raw.v) = 5
    THEN [ok |-> TRUE,
          val |-> Tup(<<Dict1(_DUMMY_AGENT_ID, raw.v[1]),
                        Dict1(_DUMMY_AGENT_ID, raw.v[2]),
                        Dict1(_DUMMY_AGENT_ID, raw.v[3]),
                        Dict1(_DUMMY_AGENT_ID, raw.v[4]),
                        Dict1(_DUMMY_AGENT_ID, raw.v[5])>>)]
    ELSE [ok |-> FALSE, val |-> Tup(<<>>)]

\* _RemoteSingleAgentEnv.step: unpacks exactly five wrapped values.
RemoteSingleAgentEnv_step(raw) ==
  IF raw.tuple /\ Len(raw.v) = 5
    THEN [ok |-> TRUE,
          val |-> Tup(<<Dict1(_DUMMY_AGENT_ID, raw.v[1]),
                        Dict1(_DUMMY_AGENT_ID, raw.v[2]),
                        Dict1(_DUMMY_AGENT_ID, raw.v[3]) @@ Dict1(ALL, raw.v[3]),
                        Dict1(_DUMMY_AGENT_ID, raw.v[4]) @@ Dict1(ALL, raw.v[4]),
                        Dict1(_DUMMY_AGENT_ID, raw.v[5])>>)]
    ELSE [ok |-> FALSE, val |-> Tup(<<>>)]

\* What a remote reset/step call of an actor of the pool resolves to, given
\* what the wrapped env returned: the actor is the env itself when make_env
\* creates actors, and one of the two wrappers otherwise.
ActorCall(creates_actors, multi, method, raw) ==
  IF creates_actors THEN [ok |-> TRUE, val |-> raw]
  ELSE IF multi
    THEN (IF method = "reset" THEN RemoteMultiAgentEnv_reset(raw)
                              ELSE RemoteMultiAgentEnv_step(raw))
    ELSE (IF method = "reset" THEN RemoteSingleAgentEnv_reset(raw)
                              ELSE RemoteSingleAgentEnv_step(raw))

-----------------------------------------------------------------------------
(* RemoteBaseEnv: helpers *)

\* An actor handle: the vector index it was built for and how many workers
\* were built for that index before it.
Actor(idx, gen) == [idx |-> idx, gen |-> gen]

\* env_ids are 0-based as in the code; TLA+ sequences are 1-based.
At(list, i) == list[i + 1]
EnvIds(list) == 0 .. (Len(list) - 1)

Range(seq) == {seq[i] : i \in DOMAIN seq}

\* list.index(x): the first position holding x (the caller checks membership).
ListIndex(list, x) == (CHOOSE i \in DOMAIN list : list[i] = x /\ \A j \in 1 .. (i - 1) : list[j] # x) - 1

\* The positions 1..n that are not in `popped`, ascending.
Remaining(n, popped) == SelectSeq([i \in 1 .. n |-> i], LAMBDA i : i \notin popped)

\* The dict after the keys `popped` were removed by self.pending.pop(obj_ref).
WithoutRefs(seq, popped) ==
  LET keep == Remaining(Len(seq), popped) IN [j \in DOMAIN keep |-> seq[keep[j]]]

\* Number of workers built by restarts so far.
RECURSIVE SumGen(_)
SumGen(list) == IF list = <<>> THEN 0 ELSE Head(list).gen + SumGen(Tail(list))

-----------------------------------------------------------------------------
(* RemoteBaseEnv._make_sub_env *)

\* Result of _make_sub_env(idx) on the actor list `list`: the new actor, the
\* callback invocations it made, and the exception it raised (if any).
\* make_fails: the user's make_env raises for this call (only visible here
\* when make_env runs in the dispatcher, i.e. when it creates the actors; in
\* the wrapper case make_env runs inside the new actor process).
make_sub_env(creates_actors, has_worker, list, idx, gen, make_fails) ==
  LET new == Actor(idx, gen) IN
  IF creates_actors
    THEN IF make_fails
           THEN [raised |-> FactoryError, sub_env |-> new, cbs |-> <<>>]
         ELSE IF has_worker
           THEN IF idx \in EnvIds(list)
                  THEN [raised |-> NoExc, sub_env |-> new,
                        cbs |-> <<[idx |-> idx, sub_environment |-> At(list, idx), made |-> new]>>]
                  ELSE [raised |-> IndexError, sub_env |-> new, cbs |-> <<>>]
         ELSE [raised |-> NoExc, sub_env |-> new, cbs |-> <<>>]
    ELSE [raised |-> NoExc, sub_env |-> new,
          cbs |-> IF has_worker
                    THEN <<[idx |-> idx, sub_environment |-> new, made |-> new]>>
                    ELSE <<>>]

-----------------------------------------------------------------------------
(* RemoteBaseEnv.try_restart *)

\* One call made by try_restart: a remote method of `actor`, or
\* _make_sub_env building `actor`; raised: the call raised.
RestartCall(name, actor, raised) == [call |-> name, actor |-> actor, raised |-> raised]

CloseError == [exc |-> "CloseError"]  \* self.actors[env_id].close.remote() raised

\* Mutant of try_restart: the rebuilt worker is never stored in the slot.
try_restart_not_stored(creates_actors, has_worker, d, env_id, make_fails, close_raises) ==
  LET old == At(d.actors, env_id)
      made == make_sub_env(creates_actors, has_worker, d.actors, env_id, old.gen + 1, make_fails)
  IN [actors |-> d.actors, terminated |-> d.terminated \cup {old},
      callbacks |-> IF made.raised # NoExc THEN d.callbacks ELSE d.callbacks \o made.cbs,
      calls |-> d.calls \o <<RestartCall("close", old, close_raises),
                              RestartCall("__ray_terminate__", old, FALSE),
                              RestartCall("_make_sub_env", made.sub_env, made.raised # NoExc)>>,
      raised |-> made.raised]

\* Mutant of try_restart: the close is not wrapped in try/except, so its
\* error leaves try_restart before the terminate and the rebuild.
try_restart_close_unguarded(creates_actors, has_worker, d, env_id, make_fails, close_raises) ==
  LET old == At(d.actors, env_id)
      made == make_sub_env(creates_actors, has_worker, d.actors, env_id, old.gen + 1, make_fails)
      term == d.terminated \cup {old}
      closed == d.calls \o <<RestartCall("close", old, close_raises)>>
      log == closed \o <<RestartCall("__ray_terminate__", old, FALSE),
                          RestartCall("_make_sub_env", made.sub_env, made.raised # NoExc)>>
  IN IF close_raises
       THEN [actors |-> d.actors, terminated |-> d.terminated, callbacks |-> d.callbacks,
             calls |-> closed, raised |-> CloseError]
     ELSE IF made.raised # NoExc
       THEN [actors |-> d.actors, terminated |-> term, callbacks |-> d.callbacks,
             calls |-> log, raised |-> made.raised]
       ELSE [actors |-> [d.actors EXCEPT ![env_id + 1] = made.sub_env],
             terminated |-> term, callbacks |-> d.callbacks \o made.cbs,
             calls |-> log, raised |-> NoExc]

\* try_restart(env_id) on the dispatcher fields d = [actors, terminated,
\* callbacks, calls]: close the actor of the slot (an error of the close is
\* logged and dropped), send it __ray_terminate__, rebuild the slot.
\* close_raises: the close raises; make_fails: make_env raises.
try_restart(creates_actors, has_worker, d, env_id, make_fails, close_raises) ==
  LET old == At(d.actors, env_id)
      made == make_sub_env(creates_actors, has_worker, d.actors, env_id, old.gen + 1, make_fails)
      term == d.terminated \cup {old}
      log == d.calls \o <<RestartCall("close", old, close_raises),
                           RestartCall("__ray_terminate__", old, FALSE),
                           RestartCall("_make_sub_env", made.sub_env, made.raised # NoExc)>>
  IN IF made.raised # NoExc
       THEN [actors |-> d.actors, terminated |-> term, callbacks |-> d.callbacks,
             calls |-> log, raised |-> made.raised]
       ELSE [actors |-> [d.actors EXCEPT ![env_id + 1] = made.sub_env],
             terminated |-> term, callbacks |-> d.callbacks \o made.cbs,
             calls |-> log, raised |-> NoExc]

-----------------------------------------------------------------------------
(* RemoteBaseEnv.poll: the result normalizer (the code after ray.get) *)

Canonical(ob, rew, terminated, truncated, info) ==
  [raised |-> NoExc, ob |-> ob, rew |-> rew, terminated |-> terminated,
   truncated |-> truncated, info |-> info]

Raises(exc) ==
  [raised |-> exc, ob |-> EmptyDict, rew |-> EmptyDict, terminated |-> EmptyDict,
   truncated |-> EmptyDict, info |-> EmptyDict]

\* `if rew is None:` -- the reset dummies.
ResetDummies(ob, info) ==
  Canonical(ob, [agent_id \in DOMAIN ob |-> 0], Dict1(ALL, FALSE), Dict1(ALL, FALSE), info)

\* The branch `if self.make_env_creates_actors:` / `if self.multiagent:`.
NormalizeMultiAgent(r) ==
  IF r.tuple
    THEN IF Len(r.v) = 5 THEN Canonical(r.v[1], r.v[2], r.v[3], r.v[4], r.v[5])
         ELSE IF Len(r.v) = 2 THEN ResetDummies(r.v[1], r.v[2])
         ELSE Raises(AssertionError)
    ELSE Raises(AssertionError)

\* Mutant of NormalizeSingleAgent: terminated and truncated lack "__all__".
NormalizeSingleAgentNoAll(r) ==
  IF r.tuple
    THEN IF Len(r.v) = 5
           THEN Canonical(Dict1(_DUMMY_AGENT_ID, r.v[1]),
                          Dict1(_DUMMY_AGENT_ID, r.v[2]),
                          Dict1(_DUMMY_AGENT_ID, r.v[3]),
                          Dict1(_DUMMY_AGENT_ID, r.v[4]),
                          Dict1(_DUMMY_AGENT_ID, r.v[5]))
         ELSE IF Len(r.v) = 2
           THEN ResetDummies(Dict1(_DUMMY_AGENT_ID, r.v[1]), Dict1(_DUMMY_AGENT_ID, r.v[2]))
         ELSE Raises(AssertionError)
    ELSE Raises(AssertionError)

\* The branch `if self.make_env_creates_actors:` / `else:` (single agent).
NormalizeSingleAgent(r) ==
  IF r.tuple
    THEN IF Len(r.v) = 5
           THEN Canonical(Dict1(_DUMMY_AGENT_ID, r.v[1]),
                          Dict1(_DUMMY_AGENT_ID, r.v[2]),
                          Dict1(_DUMMY_AGENT_ID, r.v[3]) @@ Dict1(ALL, r.v[3]),
                          Dict1(_DUMMY_AGENT_ID, r.v[4]) @@ Dict1(ALL, r.v[4]),
                          Dict1(_DUMMY_AGENT_ID, r.v[5]))
         ELSE IF Len(r.v) = 2
           THEN ResetDummies(Dict1(_DUMMY_AGENT_ID, r.v[1]), Dict1(_DUMMY_AGENT_ID, r.v[2]))
         ELSE Raises(AssertionError)
    ELSE Raises(AssertionError)

\* The auto-wrapped branch: `ob, rew, terminated, truncated, info = ret`.
NormalizeWrapped(r) ==
  IF r.tuple /\ Len(r.v) = 5
    THEN Canonical(r.v[1], r.v[2], r.v[3], r.v[4], r.v[5])
    ELSE Raises(UnpackError)

Normalize(creates_actors, multi, r) ==
  IF creates_actors
    THEN (IF multi THEN NormalizeMultiAgent(r) ELSE NormalizeSingleAgent(r))
    ELSE NormalizeWrapped(r)

\* The tuple poll() substitutes for the result of a failed call.
SynthesizedRet(e) == Tup(<<e, EmptyDict, Dict1(ALL, TRUE), Dict1(ALL, FALSE), EmptyDict>>)

-----------------------------------------------------------------------------
(* RemoteBaseEnv.poll: the loop over the ready refs *)

\* Mutant of DictSet: `obs = {env_id: ob}` -- the assignment replaces the dict.
DictSetReplacing(d, k, x) == Dict1(k, x)

\* d[env_id] = x
DictSet(d, k, x) == Dict1(k, x) @@ d

\* Mutant of ShouldRestart: the flag is ignored and every fault restarts.
ShouldRestartAlways(restart) == TRUE

\* `if self.restart_failed_sub_environments:` in the except branch.
ShouldRestart(restart) == restart

\* One iteration of `for obj_ref in ready:` on the dispatcher fields d.
\* pend, store: self.pending and the object store when poll() was entered;
\* d.popped: the refs popped so far; fails.make: the env_ids for which
\* make_env raises; fails.close: the env_ids whose actor's close raises.
PollOne(creates_actors, multi, restart, has_worker, pend, store, fails, d, obj_ref) ==
  LET actor == pend[obj_ref]
      popped == [d EXCEPT !.popped = @ \cup {obj_ref}]
      note(how, env_id) == [ref |-> obj_ref, actor |-> actor, env_id |-> env_id, how |-> how]
  IN
  IF actor \notin Range(d.actors)
    THEN \* self.actors.index(actor) raises ValueError
         [popped EXCEPT !.raised = ValueErrorNotInList,
                        !.handled = @ \o <<note("not_in_pool", -1)>>]
    ELSE
      LET env_id == ListIndex(d.actors, actor)
          obj == store[obj_ref]
          got == [popped EXCEPT !.env_ids = @ \cup {env_id}]
          store_result(s, r, how) ==
            LET n == Normalize(creates_actors, multi, r) IN
            IF n.raised # NoExc
              THEN [s EXCEPT !.raised = n.raised,
                             !.handled = @ \o <<note("format_violation", env_id)>>]
              ELSE [s EXCEPT !.obs = DictSet(@, env_id, n.ob),
                             !.rewards = DictSet(@, env_id, n.rew),
                             !.terminateds = DictSet(@, env_id, n.terminated),
                             !.truncateds = DictSet(@, env_id, n.truncated),
                             !.infos = DictSet(@, env_id, n.info),
                             !.handled = @ \o <<note(how, env_id)>>]
      IN
      IF obj.st = "exc"
        THEN IF ShouldRestart(restart)
               THEN LET r == try_restart(creates_actors, has_worker,
                                         [actors |-> got.actors, terminated |-> got.terminated,
                                          callbacks |-> got.callbacks, calls |-> got.calls],
                                         env_id, env_id \in fails.make, env_id \in fails.close)
                        after == [got EXCEPT !.actors = r.actors,
                                             !.terminated = r.terminated,
                                             !.callbacks = r.callbacks,
                                             !.calls = r.calls]
                    IN IF r.raised # NoExc
                         THEN [after EXCEPT !.raised = r.raised,
                                            !.handled = @ \o <<note("restart_failed", env_id)>>]
                         ELSE store_result(after, SynthesizedRet(obj.e), "fault_restarted")
               ELSE [got EXCEPT !.raised = obj.e,
                                !.handled = @ \o <<note("fault_raised", env_id)>>]
        ELSE store_result(got, obj.val, "value")

\* Mutant of PollLoop: every ready ref is popped from self.pending, also the
\* ones after the iteration that raises.
RECURSIVE PollLoopPopsAll(_, _, _, _, _, _, _, _, _)
PollLoopPopsAll(creates_actors, multi, restart, has_worker, pend, store, fails, d, ready) ==
  IF ready = <<>> \/ d.raised # NoExc
    THEN [d EXCEPT !.popped = @ \cup Range(ready)]
    ELSE PollLoopPopsAll(creates_actors, multi, restart, has_worker, pend, store, fails,
                         PollOne(creates_actors, multi, restart, has_worker, pend, store, fails, d, Head(ready)),
                         Tail(ready))

\* `for obj_ref in ready:` -- stops at the first iteration that raises.
RECURSIVE PollLoop(_, _, _, _, _, _, _, _, _)
PollLoop(creates_actors, multi, restart, has_worker, pend, store, fails, d, ready) ==
  IF ready = <<>> \/ d.raised # NoExc
    THEN d
    ELSE PollLoop(creates_actors, multi, restart, has_worker, pend, store, fails,
                  PollOne(creates_actors, multi, restart, has_worker, pend, store, fails, d, Head(ready)),
                  Tail(ready))

\* Mutant of RayWait: num_returns is left at ray.wait's default of 1.
RayWaitOne(pend, store) ==
  LET all == SelectSeq([i \in DOMAIN pend |-> i], LAMBDA r : store[r].st # "running")
  IN IF all = <<>> THEN <<>> ELSE <<Head(all)>>

\* ray.wait(list(self.pending), num_returns=len(self.pending), timeout=...):
\* the pending refs whose call has finished, in the order of the input list.
RayWait(pend, store) == SelectSeq([i \in DOMAIN pend |-> i], LAMBDA r : store[r].st # "running")

-----------------------------------------------------------------------------
(* RemoteBaseEnv.__init__ *)

ResetArgs == [seed |-> None, options |-> None]

NoBatch == [obs |-> EmptyDict, rewards |-> EmptyDict, terminateds |-> EmptyDict,
            truncateds |-> EmptyDict, infos |-> EmptyDict, extras |-> EmptyDict]

\* ret.value is the tuple of values a call returned, <<>> when it returned
\* None or raised; the six dicts poll() returns are in ret.batch.
NoValue == <<>>
Returned(op, value) == [op |-> op, raised |-> NoExc, value |-> value, batch |-> NoBatch]
Raised(op, exc) == [op |-> op, raised |-> exc, value |-> NoValue, batch |-> NoBatch]

\* ret and round describe the step just taken: ret is what the call that
\* finished in this step handed to its caller, round is the wait round poll()
\* processed in this step.  Every other step resets them.
NoReturn == [op |-> "none", raised |-> NoExc, value |-> NoValue, batch |-> NoBatch]

NoRound == [ready |-> <<>>, handled |-> <<>>, env_ids |-> {}, left |-> <<>>]

\* `while len(self.actors) < self.num_envs: self.actors.append(self._make_sub_env(len(self.actors)))`
RECURSIVE ExtendActors(_, _, _)
ExtendActors(has_worker, c, n) ==
  IF Len(c.actors) >= n \/ c.raised # NoExc
    THEN c
    ELSE LET m == make_sub_env(TRUE, has_worker, c.actors, Len(c.actors), 0, FALSE) IN
         ExtendActors(has_worker,
                      IF m.raised # NoExc
                        THEN [c EXCEPT !.raised = m.raised]
                        ELSE [c EXCEPT !.actors = Append(@, m.sub_env),
                                       !.callbacks = @ \o m.cbs],
                      n)

\* `[self._make_sub_env(i) for i in range(self.num_envs)]` with the wrappers.
RECURSIVE WrapActors(_, _, _)
WrapActors(has_worker, c, n) ==
  IF Len(c.actors) >= n
    THEN c
    ELSE LET m == make_sub_env(FALSE, has_worker, c.actors, Len(c.actors), 0, FALSE) IN
         WrapActors(has_worker,
                    [c EXCEPT !.actors = Append(@, m.sub_env), !.callbacks = @ \o m.cbs],
                    n)

\* The actor list the constructor builds.  existing_n: len(existing_envs);
\* existing_are_actors: isinstance(existing_envs[0], ray.actor.ActorHandle).
BuildActors(n, has_worker, existing_n, existing_are_actors) ==
  IF existing_n > 0 /\ existing_are_actors
    THEN ExtendActors(has_worker,
                      [actors |-> [i \in 1 .. existing_n |-> Actor(i - 1, 0)],
                       callbacks |-> <<>>, raised |-> NoExc, creates |-> TRUE,
                       observation_space |-> None, action_space |-> None],
                      n)
    ELSE \* the spaces come from existing_envs[0] or from the actor of slot 0
         WrapActors(has_worker,
                    [actors |-> <<>>, callbacks |-> <<>>, raised |-> NoExc, creates |-> FALSE,
                     observation_space |-> ObservationSpace, action_space |-> ActionSpace],
                    n)

\* `self.pending = {a.reset.remote(): a for a in self.actors}`
InitialPending(list) == list

InitialObjects(list) == [r \in DOMAIN list |-> Running("reset", ResetArgs)]

\* The state the constructor leaves, for the constructor arguments drawn
\* from the given sets.
InitFrom(sizes, multis, restarts, workers) ==
  \E n \in sizes, multi \in multis, restart \in restarts,
     has_worker \in workers, existing_n \in {0} \cup sizes, existing_are_actors \in BOOLEAN :
    LET c == BuildActors(n, has_worker, existing_n, existing_are_actors) IN
    /\ (existing_n = 0 => ~existing_are_actors)
    /\ num_envs = n
    /\ multiagent = multi
    /\ _observation_space = c.observation_space
    /\ _action_space = c.action_space
    /\ calls = <<>>
    /\ restart_failed_sub_environments = restart
    /\ worker = has_worker
    /\ make_env_creates_actors = c.creates
    /\ actors = c.actors
    /\ callbacks = c.callbacks
    /\ terminated_actors = {}
    /\ round = NoRound
    /\ IF c.raised # NoExc
         THEN /\ pending = <<>>
              /\ objects = <<>>
              /\ pc = "failed"
              /\ ret = Raised("__init__", c.raised)
         ELSE /\ pending = InitialPending(c.actors)
              /\ objects = InitialObjects(c.actors)
              /\ pc = "idle"
              /\ ret = Returned("__init__", NoValue)

\* Every pool mode and restart setting, pools of up to MaxEnvs actors, no
\* owning rollout worker.
Init == InitFrom(1 .. MaxEnvs, BOOLEAN, BOOLEAN, {FALSE})

\* The three-worker scenarios: num_envs = 3, single-agent envs, restarts
\* disabled, actors either supplied by the caller or built as wrappers.
InitPool3 == InitFrom({3}, {FALSE}, {FALSE}, {FALSE})

-----------------------------------------------------------------------------
(* The actors finish their calls *)

FaultCount(store) == Cardinality({r \in DOMAIN store : store[r].st = "exc"})

\* A further fault or restart stays within MaxRestarts replacements.
RestartBudget == SumGen(actors) + FaultCount(objects) < MaxRestarts

WellFormed(val) == val.tuple /\ Len(val.v) \in {2, 5}

BadCount(store) ==
  Cardinality({r \in DOMAIN store : store[r].st = "value" /\ ~WellFormed(store[r].val)})

\* A further wrong-shaped result stays within MaxBadReturns.
BadBudget == BadCount(objects) < MaxBadReturns

\* The actor finishes the call behind `ref`: with a value computed from what
\* the wrapped env returned, or with an exception (the env raised, the
\* wrapper raised on the env's return value, or the actor is gone).
Complete(ref) ==
  /\ pc # "failed"
  /\ ref \in DOMAIN objects
  /\ objects[ref].st = "running"
  /\ LET o == objects[ref]
         alive == pending[ref] \notin terminated_actors
     IN \/ /\ alive
           /\ \E raw \in EnvResults(multiagent, o.method) :
                LET c == ActorCall(make_env_creates_actors, multiagent, o.method, raw) IN
                /\ c.ok \/ RestartBudget
                /\ (c.ok /\ ~WellFormed(c.val)) => BadBudget
                /\ objects' = [objects EXCEPT ![ref] =
                                IF c.ok THEN Done(o, c.val, raw)
                                        ELSE Failed(o, WorkerError(pending[ref]), raw)]
        \/ /\ RestartBudget
           /\ objects' = [objects EXCEPT ![ref] = Failed(o, WorkerError(pending[ref]), NoRaw)]
  /\ ret' = NoReturn
  /\ round' = NoRound
  /\ calls' = <<>>
  /\ UNCHANGED <<config, actors, pending, terminated_actors, callbacks, pc>>

-----------------------------------------------------------------------------
(* RemoteBaseEnv.poll *)

\* The env_ids whose ready call failed (the ones poll() may restart).
FaultedReady(ready) ==
  {ListIndex(actors, pending[ready[i]]) :
     i \in {j \in DOMAIN ready : /\ objects[ready[j]].st = "exc"
                                 /\ pending[ready[j]] \in Range(actors)}}

\* poll() after its wait loop, for the ready list the last ray.wait returned.
\* (d, the outcome of the loop over `ready`, is bound over a singleton set so
\* that it is computed once per choice of the failures.)
FinishPoll(ready) ==
  \E make_fails \in IF make_env_creates_actors /\ restart_failed_sub_environments
                      THEN SUBSET FaultedReady(ready) ELSE {{}},
     close_raises \in IF restart_failed_sub_environments
                        THEN SUBSET FaultedReady(ready) ELSE {{}} :
    \E d \in {PollLoop(make_env_creates_actors, multiagent,
                      restart_failed_sub_environments, worker, pending, objects,
                      [make |-> make_fails, close |-> close_raises],
                      [actors |-> actors, terminated |-> terminated_actors,
                       callbacks |-> callbacks, calls |-> <<>>, popped |-> {},
                       obs |-> EmptyDict, rewards |-> EmptyDict,
                       terminateds |-> EmptyDict, truncateds |-> EmptyDict,
                       infos |-> EmptyDict, env_ids |-> {},
                       raised |-> NoExc, handled |-> <<>>],
                      ready)} :
       /\ actors' = d.actors
       /\ terminated_actors' = d.terminated
       /\ callbacks' = d.callbacks
       /\ calls' = d.calls
       /\ pending' = WithoutRefs(pending, d.popped)
       /\ objects' = WithoutRefs(objects, d.popped)
       /\ pc' = "idle"
       /\ round' = [ready |-> [i \in DOMAIN ready |-> [actor |-> pending[ready[i]],
                                                      obj |-> objects[ready[i]]]],
                    handled |-> d.handled, env_ids |-> d.env_ids,
                    left |-> WithoutRefs(pending, Range(ready))]
       /\ ret' = IF d.raised # NoExc
                   THEN Raised("poll", d.raised)
                   ELSE [op |-> "poll", raised |-> NoExc, value |-> NoValue,
                         batch |-> [obs |-> d.obs, rewards |-> d.rewards,
                                    terminateds |-> d.terminateds,
                                    truncateds |-> d.truncateds,
                                    infos |-> d.infos, extras |-> EmptyDict]]
       /\ UNCHANGED config

\* `while not ready:` found nothing ready: poll() stays in its wait loop.
KeepWaiting ==
  /\ pc' = "poll"
  /\ ret' = NoReturn
  /\ round' = NoRound
  /\ calls' = <<>>
  /\ UNCHANGED <<config, actors, pending, objects, terminated_actors, callbacks>>

\* Mutant of WaitRound: `if not ready:` instead of `while not ready:` -- one
\* wait, then poll() goes on with whatever is ready.
WaitRoundOnce == FinishPoll(RayWait(pending, objects))

\* One round of `while not ready: ready, _ = ray.wait(...)`: with no ref
\* ready the loop goes on, otherwise the rest of poll() runs and poll() ends.
WaitRound ==
  LET ready == RayWait(pending, objects) IN
  IF ready = <<>> THEN KeepWaiting ELSE FinishPoll(ready)

\* The caller calls poll(): the first wait round.
PollCall ==
  /\ pc = "idle"
  /\ WaitRound

\* poll() is still in its wait loop: a further wait round.
PollRound ==
  /\ pc = "poll"
  /\ WaitRound

-----------------------------------------------------------------------------
(* RemoteBaseEnv.send_actions / try_reset / try_restart *)

\* The caller's precondition: the slot has no task that poll() has not yet
\* consumed.
Outstanding(env_id) == \E i \in DOMAIN pending : pending[i].idx = env_id

\* The orders in which a dict with key set S can be iterated.
Orders(S) == {o \in [1 .. Cardinality(S) -> S] : \A i, j \in DOMAIN o : o[i] = o[j] => i = j}

\* Mutant of StepArg: the action map is never unwrapped.
StepArgAlwaysMap(creates_actors, multi, actions) == actions

\* The argument send_actions passes to actor.step.remote for one env_id.
StepArg(creates_actors, multi, actions) ==
  IF ~multi /\ creates_actors THEN actions[_DUMMY_AGENT_ID] ELSE actions

\* Mutant of SendLoop: the `else:` is missing, so a bare single-agent actor
\* is sent the unwrapped action and then the action map as a second step.
RECURSIVE SendLoopNoElse(_, _, _, _, _)
SendLoopNoElse(creates_actors, multi, list, d, order) ==
  IF order = <<>>
    THEN d
    ELSE LET env_id == Head(order)
             actor == At(list, env_id)
             first == [pending |-> Append(d.pending, actor),
                       objects |-> Append(d.objects,
                                          Running("step", StepArg(creates_actors, multi, ActionMap(multi))))]
         IN SendLoopNoElse(creates_actors, multi, list,
                           IF ~multi /\ creates_actors
                             THEN [pending |-> Append(first.pending, actor),
                                   objects |-> Append(first.objects, Running("step", ActionMap(multi)))]
                             ELSE first,
                           Tail(order))

\* `for env_id, actions in action_dict.items():` on [pending, objects].
RECURSIVE SendLoop(_, _, _, _, _)
SendLoop(creates_actors, multi, list, d, order) ==
  IF order = <<>>
    THEN d
    ELSE LET env_id == Head(order)
             actor == At(list, env_id)
         IN SendLoop(creates_actors, multi, list,
                     [pending |-> Append(d.pending, actor),
                      objects |-> Append(d.objects,
                                         Running("step", StepArg(creates_actors, multi, ActionMap(multi))))],
                     Tail(order))

SendActions(order) ==
  /\ pc = "idle"
  /\ order # <<>>
  /\ \A i \in DOMAIN order : order[i] \in EnvIds(actors) /\ ~Outstanding(order[i])
  /\ LET d == SendLoop(make_env_creates_actors, multiagent, actors,
                       [pending |-> pending, objects |-> objects], order)
     IN /\ pending' = d.pending
        /\ objects' = d.objects
  /\ ret' = Returned("send_actions", NoValue)
  /\ round' = NoRound
  /\ calls' = <<>>
  /\ UNCHANGED <<config, actors, terminated_actors, callbacks, pc>>

\* Mutant of TryReset: `self.pending[obj_ref] = actor` is missing.
TryResetUnrecorded(env_id) ==
  /\ pc = "idle"
  /\ env_id \in EnvIds(actors)
  /\ ~Outstanding(env_id)
  /\ ret' = Returned("try_reset", <<ASYNC_RESET_RETURN, ASYNC_RESET_RETURN>>)
  /\ round' = NoRound
  /\ calls' = <<>>
  /\ UNCHANGED <<config, actors, pending, objects, terminated_actors, callbacks, pc>>

\* try_reset(env_id, seed=None, options=None): the reset call is sent to the
\* actor of the slot and its ref recorded; the sentinel pair is returned.
TryReset(env_id) ==
  /\ pc = "idle"
  /\ env_id \in EnvIds(actors)
  /\ ~Outstanding(env_id)
  /\ pending' = Append(pending, At(actors, env_id))
  /\ objects' = Append(objects, Running("reset", ResetArgs))
  /\ ret' = Returned("try_reset", <<ASYNC_RESET_RETURN, ASYNC_RESET_RETURN>>)
  /\ round' = NoRound
  /\ calls' = <<>>
  /\ UNCHANGED <<config, actors, terminated_actors, callbacks, pc>>

TryRestart(env_id) ==
  /\ pc = "idle"
  /\ env_id \in EnvIds(actors)
  /\ RestartBudget
  /\ \E make_fails \in (IF make_env_creates_actors THEN BOOLEAN ELSE {FALSE}),
        close_raises \in BOOLEAN :
       LET r == try_restart(make_env_creates_actors, worker,
                            [actors |-> actors, terminated |-> terminated_actors,
                             callbacks |-> callbacks, calls |-> <<>>],
                            env_id, make_fails, close_raises)
       IN /\ actors' = r.actors
          /\ calls' = r.calls
          /\ terminated_actors' = r.terminated
          /\ callbacks' = r.callbacks
          /\ ret' = IF r.raised # NoExc THEN Raised("try_restart", r.raised)
                                        ELSE Returned("try_restart", NoValue)
  /\ round' = NoRound
  /\ UNCHANGED <<config, pending, objects, pc>>

-----------------------------------------------------------------------------

Next ==
  \/ \E ref \in DOMAIN objects : Complete(ref)
  \/ PollCall
  \/ PollRound
  \/ \E S \in SUBSET EnvIds(actors) : \E order \in Orders(S) : SendActions(order)
  \/ \E env_id \in EnvIds(actors) : TryReset(env_id)
  \/ \E env_id \in EnvIds(actors) : TryRestart(env_id)

Spec == Init /\ [][Next]_vars

SpecPool3 == InitPool3 /\ [][Next]_vars

\* The dispatcher of a rollout worker: self.worker is set, so _make_sub_env
\* reports every worker it builds to worker.callbacks.
InitWorker == InitFrom(1 .. MaxEnvs, BOOLEAN, BOOLEAN, {TRUE})

SpecWorker == InitWorker /\ [][Next]_vars

\* poll()'s wait loop keeps running: a round is eventually taken.
FairSpec == Spec /\ WF_vars(PollRound)

-----------------------------------------------------------------------------
(* Properties *)

PollReturned == ret.op = "poll" /\ ret.raised = NoExc
PollRaised == ret.op = "poll" /\ ret.raised # NoExc

\* The env_ids of the refs that were ready in the wait round of the poll()
\* that just ended.
ReadyIds == {round.ready[i].actor.idx : i \in DOMAIN round.ready}

\* C1: a task abandoned by try_restart is no longer in the Pending Table
\* (every pending ref belongs to an actor of the pool), and no poll() raises
\* because such a task resolved.
C1_AbandonedTaskIgnored ==
  /\ \A i \in DOMAIN pending : pending[i] \in Range(actors)
  /\ ~(ret.op = "poll" /\ ret.raised = ValueErrorNotInList)

\* The terminal record poll() is to report for a failed call: the exception
\* as the observation, no rewards, terminated, not truncated, no infos.
IsTerminalRecord(batch, env_id, e) ==
  /\ env_id \in DOMAIN batch.obs
  /\ batch.obs[env_id] = e
  /\ batch.rewards[env_id] = EmptyDict
  /\ batch.terminateds[env_id] = Dict1(ALL, TRUE)
  /\ batch.truncateds[env_id] = Dict1(ALL, FALSE)
  /\ batch.infos[env_id] = EmptyDict

\* C2: with restarts enabled, the batch a poll() returns holds the terminal
\* record for every env_id whose ready call failed, in every pool mode.
C2_FaultReportedAsTerminalRecord ==
  (restart_failed_sub_environments /\ PollReturned) =>
    \A i \in DOMAIN round.ready :
      round.ready[i].obj.st = "exc" =>
        IsTerminalRecord(ret.batch, round.ready[i].actor.idx, round.ready[i].obj.e)

\* The ready calls of the last poll() that failed and were handled by the
\* restart policy (i indexes round.ready and round.handled alike).
FaultsHandled ==
  {i \in DOMAIN round.handled : round.handled[i].how \in {"fault_restarted", "restart_failed"}}

\* C3 as claimed: after a poll() that handled a failed call of slot k with
\* restarts enabled, slot k holds another worker and a reset of that worker
\* is pending.
C3_RestartedWithPendingReset ==
  restart_failed_sub_environments =>
    \A i \in FaultsHandled :
      LET k == round.handled[i].env_id IN
      /\ At(actors, k) # round.ready[i].actor
      /\ \E j \in DOMAIN pending : pending[j] = At(actors, k) /\ objects[j].method = "reset"

\* C3 amended: after a poll() that handled a failed call of slot k with
\* restarts enabled and rebuilt the worker, slot k holds another worker than
\* the failed one, and no task of the replacement is pending.
C3_RestartedAndIdle ==
  restart_failed_sub_environments =>
    \A i \in DOMAIN round.handled :
      round.handled[i].how = "fault_restarted" =>
        LET k == round.handled[i].env_id IN
        /\ At(actors, k) # round.ready[i].actor
        /\ round.ready[i].actor \in terminated_actors
        /\ \A j \in DOMAIN pending : pending[j] # At(actors, k)

C3_Witness ==
  /\ restart_failed_sub_environments
  /\ PollReturned
  /\ \E i \in DOMAIN round.handled : round.handled[i].how = "fault_restarted"

\* C4: no two refs of the Pending Table belong to the same env_id.
C4_OnePendingPerEnv ==
  \A i, j \in DOMAIN pending : pending[i].idx = pending[j].idx => i = j

\* Every slot of a pool of two has a task pending, one of them a step sent
\* to a worker that replaced a restarted one.
C4_Witness ==
  /\ Len(actors) >= 2
  /\ Len(pending) = Len(actors)
  /\ \E i \in DOMAIN pending : pending[i].gen > 0 /\ objects[i].method = "step"

\* C5: the five mappings a poll() returns have the same keys, the env_ids
\* whose ref was ready in that call, and extras is empty.
C5_BatchKeys ==
  PollReturned =>
    /\ DOMAIN ret.batch.obs = ReadyIds
    /\ DOMAIN ret.batch.rewards = ReadyIds
    /\ DOMAIN ret.batch.terminateds = ReadyIds
    /\ DOMAIN ret.batch.truncateds = ReadyIds
    /\ DOMAIN ret.batch.infos = ReadyIds
    /\ round.env_ids = ReadyIds
    /\ DOMAIN ret.batch.extras = {}

\* A poll() returned some but not all env_ids while another call was still
\* pending.
C5_Witness ==
  /\ PollReturned
  /\ Cardinality(DOMAIN ret.batch.obs) >= 1
  /\ DOMAIN ret.batch.obs # EnvIds(actors)
  /\ pending # <<>>

\* A ray.get result poll() can normalize in the pool's mode.
Normalizable(val) == Normalize(make_env_creates_actors, multiagent, val).raised = NoExc

\* The record poll() is to report for a successful call.
IsNormalizedRecord(batch, env_id, val) ==
  LET n == Normalize(make_env_creates_actors, multiagent, val) IN
  /\ env_id \in DOMAIN batch.obs
  /\ batch.obs[env_id] = n.ob
  /\ batch.rewards[env_id] = n.rew
  /\ batch.terminateds[env_id] = n.terminated
  /\ batch.truncateds[env_id] = n.truncated
  /\ batch.infos[env_id] = n.info

\* C6: with restarts enabled, a wait round in which some ready calls failed
\* and the others returned valid results ends in a batch that holds the
\* normalized result of every successful call and the terminal record of
\* every failed one.
C6_FaultKeepsSiblings ==
  LET failed == {i \in DOMAIN round.ready : round.ready[i].obj.st = "exc"}
      valid == {i \in DOMAIN round.ready :
                  round.ready[i].obj.st = "value" /\ Normalizable(round.ready[i].obj.val)}
  IN (/\ restart_failed_sub_environments
      /\ ret.op = "poll"
      /\ failed # {} /\ valid # {}
      /\ failed \cup valid = DOMAIN round.ready)
     => /\ ret.raised = NoExc
        /\ \A i \in valid :
             IsNormalizedRecord(ret.batch, round.ready[i].actor.idx, round.ready[i].obj.val)
        /\ \A i \in failed :
             IsTerminalRecord(ret.batch, round.ready[i].actor.idx, round.ready[i].obj.e)

\* What processing the ready ref r raises in poll() with restarts disabled
\* (NoExc: nothing), given the pool `list`.
ErrorOf(list, r) ==
  IF r.actor \notin Range(list) THEN ValueErrorNotInList
  ELSE IF r.obj.st = "exc" THEN r.obj.e
  ELSE Normalize(make_env_creates_actors, multiagent, r.obj.val).raised

\* C7 as claimed: with restarts disabled, a poll() whose wait round holds a
\* failed call raises that call's exception, returns no batch, restarts no
\* worker and leaves the pool as it was.
C7_FaultRaisedItself ==
  [][(/\ ~restart_failed_sub_environments
      /\ ret'.op = "poll"
      /\ \E i \in DOMAIN round'.ready : round'.ready[i].obj.st = "exc")
     => /\ \E i \in DOMAIN round'.ready :
             round'.ready[i].obj.st = "exc" /\ ret'.raised = round'.ready[i].obj.e
        /\ ret'.batch = NoBatch
        /\ actors' = actors
        /\ terminated_actors' = terminated_actors]_vars

\* C7 amended: with restarts disabled, a poll() whose wait round holds a
\* failed call raises, returns no batch, restarts no worker and leaves the
\* pool as it was; it raises the error of the first ready ref, in Pending
\* Table order, whose processing fails (the refs before it are processed
\* without error, the refs after it are not processed).
C7_FirstErrorRaised ==
  [][(/\ ~restart_failed_sub_environments
      /\ ret'.op = "poll"
      /\ \E i \in DOMAIN round'.ready : round'.ready[i].obj.st = "exc")
     => LET n == Len(round'.handled) IN
        /\ n \in DOMAIN round'.ready
        /\ ret'.raised # NoExc
        /\ ret'.raised = ErrorOf(actors, round'.ready[n])
        /\ \A j \in 1 .. (n - 1) : ErrorOf(actors, round'.ready[j]) = NoExc
        /\ ret'.batch = NoBatch
        /\ actors' = actors
        /\ terminated_actors' = terminated_actors]_vars

\* With restarts disabled a poll() raised a worker's fault although another
\* ref was ready in the same wait round.
C7_Witness ==
  /\ ~restart_failed_sub_environments
  /\ PollRaised
  /\ ret.raised.exc = "RayError"
  /\ Len(round.ready) >= 2

\* C8: poll() raises a format violation for every processed ref (of a worker
\* of the pool) whose env returned a tuple of a length other than 2 or 5; it
\* never reports it as a fault and never restarts the worker for it.
C8_BadArityIsFormatViolation ==
  \A i \in DOMAIN round.handled :
    LET raw == round.ready[i].obj.raw IN
    (/\ round.handled[i].how # "not_in_pool"
     /\ raw.tuple
     /\ Len(raw.v) \notin {2, 5})
    => /\ round.handled[i].how = "format_violation"
       /\ ret.raised \in {AssertionError, UnpackError}

\* C9: a poll() that returns reports exactly the env_ids whose call had
\* finished when it waited, pops exactly their refs and leaves every other
\* ref pending as it was.
C9_PollReturnsReadyOnly ==
  [][(ret'.op = "poll" /\ ret'.raised = NoExc)
     => LET done == {i \in DOMAIN pending : objects[i].st # "running"} IN
        /\ DOMAIN ret'.batch.obs = {pending[i].idx : i \in done}
        /\ pending' = WithoutRefs(pending, done)
        /\ objects' = WithoutRefs(objects, done)]_vars

\* Pool of three: a poll() returned env_ids 0 and 2 while the call of
\* worker 1 is still running and pending.
C9_Witness ==
  /\ Len(actors) = 3
  /\ PollReturned
  /\ DOMAIN ret.batch.obs = {0, 2}
  /\ pending = <<Actor(1, 0)>>
  /\ objects[1].st = "running"

SomeReady == \E i \in DOMAIN objects : objects[i].st # "running"

\* C10 as claimed: poll() never returns an empty batch, it ends only when a
\* pending call has finished, and once one has finished poll() eventually
\* returns a batch: it eventually ends, and it ends only by returning.
C10_PollEventuallyReturns ==
  /\ [](PollReturned => DOMAIN ret.batch.obs # {})
  /\ [][ret'.op = "poll" => SomeReady]_vars
  /\ [][ret'.op = "poll" => ret'.raised = NoExc]_vars
  /\ ((pc = "poll" /\ SomeReady) ~> PollReturned)

\* C10 amended: poll() never returns an empty batch, it ends only when a
\* pending call has finished (so it waits forever when none ever does), and
\* once one has finished poll() eventually ends: it returns a batch or raises.
C10_PollEventuallyEnds ==
  /\ [](PollReturned => DOMAIN ret.batch.obs # {})
  /\ [][ret'.op = "poll" => SomeReady]_vars
  /\ ((pc = "poll" /\ SomeReady) ~> (ret.op = "poll"))

\* poll() waits on an empty Pending Table.
C10_Witness == pc = "poll" /\ pending = <<>>

\* C11: a try_restart(env_id) closes the worker of the slot, then sends the
\* same worker __ray_terminate__, then rebuilds the slot, in this order and
\* whether or not the close raised; it raises only what the rebuild raises;
\* when it returns, the slot holds a worker that was not in the pool before
\* and every other slot is unchanged.
C11_RestartOrder ==
  [][ret'.op = "try_restart" =>
       \E k \in DOMAIN actors :
         LET old == actors[k] IN
         /\ Len(calls') = 3
         /\ calls'[1].call = "close" /\ calls'[1].actor = old
         /\ calls'[2].call = "__ray_terminate__" /\ calls'[2].actor = old
         /\ calls'[3].call = "_make_sub_env" /\ calls'[3].actor.idx = k - 1
         /\ old \in terminated_actors'
         /\ (ret'.raised # NoExc => calls'[3].raised)
         /\ (ret'.raised = NoExc =>
               /\ Len(actors') = Len(actors)
               /\ actors'[k] = calls'[3].actor
               /\ actors'[k] \notin Range(actors)
               /\ \A j \in DOMAIN actors : j # k => actors'[j] = actors[j])]_vars

\* A try_restart returned although the close of the old worker raised, in a
\* pool of two.
C11_Witness ==
  /\ ret.op = "try_restart"
  /\ ret.raised = NoExc
  /\ calls[1].raised
  /\ Len(actors) = 2

\* C15: after a try_restart, also one whose rebuild raised, the slot does not
\* hold the worker that try_restart sent __ray_terminate__.
C15_NoTerminatedWorkerInSlot ==
  \A i \in DOMAIN calls :
    calls[i].call = "__ray_terminate__" => At(actors, calls[i].actor.idx) # calls[i].actor

\* C12: try_reset returns the pair (ASYNC_RESET_RETURN, ASYNC_RESET_RETURN)
\* and raises nothing; its only state change is one new pending ref of a
\* running reset call of the worker now at the slot, appended to the Pending
\* Table (pool, terminated workers, callbacks and every other pending entry
\* unchanged); the result of a reset is handed out only by a poll(), in the
\* batch under the slot of the worker.
C12_TryResetOnlyAddsPendingReset ==
  /\ [][ret'.op = "try_reset" =>
          /\ ret'.value = <<ASYNC_RESET_RETURN, ASYNC_RESET_RETURN>>
          /\ ret'.raised = NoExc
          /\ ret'.batch = NoBatch
          /\ \E env_id \in EnvIds(actors) : pending' = Append(pending, At(actors, env_id))
          /\ objects' = Append(objects, Running("reset", ResetArgs))
          /\ actors' = actors
          /\ terminated_actors' = terminated_actors
          /\ callbacks' = callbacks]_vars
  /\ [](PollReturned =>
          \A i \in DOMAIN round.handled :
            (round.ready[i].obj.method = "reset" /\ round.handled[i].how = "value")
            => /\ round.handled[i].env_id = ListIndex(actors, round.ready[i].actor)
               /\ IsNormalizedRecord(ret.batch, round.handled[i].env_id, round.ready[i].obj.val))

\* A try_reset for a slot whose worker was replaced, while the other slot's
\* task is still pending.
C12_Witness ==
  /\ ret.op = "try_reset"
  /\ Len(pending) >= 2
  /\ pending[Len(pending)].gen = 1

\* C13: right after the constructor returned, the pool has exactly num_envs
\* workers and the Pending Table holds one running reset call for each worker
\* of the pool and nothing else.
C13_InitBuildsPoolOfNumEnvs ==
  (ret.op = "__init__" /\ ret.raised = NoExc)
  => /\ Len(actors) = num_envs
     /\ pending = actors
     /\ objects = [r \in DOMAIN actors |-> Running("reset", ResetArgs)]

\* C14: for addressable workers (make_env creates the actors) the record a
\* returning poll() holds for a successful call is the reference record: a
\* single-agent step tuple (o, r, t, tr, i) gives obs = {AGENT: o},
\* reward = {AGENT: r}, terminated = {AGENT: t, "__all__": t},
\* truncated = {AGENT: tr, "__all__": tr}, info = {AGENT: i}; a multi-agent
\* step 5-tuple is handed on unchanged; a reset 2-tuple gives reward 0 for
\* exactly the keys of obs and terminated = truncated = {"__all__": FALSE}.
C14_NormalizerMatchesReference ==
  (make_env_creates_actors /\ PollReturned) =>
    \A i \in DOMAIN round.handled :
      round.handled[i].how = "value" =>
        LET v == round.ready[i].obj.val.v
            k == round.handled[i].env_id
            b == ret.batch
        IN
        /\ k \in DOMAIN b.obs
        /\ (Len(v) = 5 /\ ~multiagent) =>
             /\ b.obs[k] = ("agent0" :> v[1])
             /\ b.rewards[k] = ("agent0" :> v[2])
             /\ b.terminateds[k] = ("agent0" :> v[3]) @@ ("__all__" :> v[3])
             /\ b.truncateds[k] = ("agent0" :> v[4]) @@ ("__all__" :> v[4])
             /\ b.infos[k] = ("agent0" :> v[5])
        /\ (Len(v) = 5 /\ multiagent) =>
             /\ b.obs[k] = v[1]
             /\ b.rewards[k] = v[2]
             /\ b.terminateds[k] = v[3]
             /\ b.truncateds[k] = v[4]
             /\ b.infos[k] = v[5]
        /\ Len(v) = 2 =>
             /\ b.obs[k] = (IF multiagent THEN v[1] ELSE ("agent0" :> v[1]))
             /\ b.infos[k] = (IF multiagent THEN v[2] ELSE ("agent0" :> v[2]))
             /\ DOMAIN b.rewards[k] = DOMAIN b.obs[k]
             /\ \A a \in DOMAIN b.obs[k] : b.rewards[k][a] = 0
             /\ b.terminateds[k] = ("__all__" :> FALSE)
             /\ b.truncateds[k] = ("__all__" :> FALSE)

\* A poll() returned the step result of an addressable single-agent worker.
C14_Witness ==
  /\ make_env_creates_actors
  /\ ~multiagent
  /\ PollReturned
  /\ \E i \in DOMAIN round.handled :
       round.handled[i].how = "value" /\ round.ready[i].obj.method = "step"

\* What a send_actions step did, given the argument `arg` every step call is
\* to carry: for some order of some set of env_ids (the entries of
\* action_dict) it appended, per entry, one ref of a running step call with
\* argument `arg`, mapped to the worker of that slot, and changed nothing else.
SentSteps(arg) ==
  \E S \in SUBSET EnvIds(actors) : \E order \in Orders(S) :
    /\ pending' = pending \o [i \in DOMAIN order |-> At(actors, order[i])]
    /\ objects' = objects \o [i \in DOMAIN order |-> Running("step", arg)]
    /\ actors' = actors
    /\ terminated_actors' = terminated_actors

\* C16 as claimed: send_actions hands the worker the bare action exactly when
\* the pool holds non-addressable (auto-wrapped) single-agent workers and the
\* agent-keyed action map in every other mode, and records one new pending
\* step ref per entry of action_dict for the worker of that slot.
C16_BareActionForWrappedWorkers ==
  [][ret'.op = "send_actions" =>
       SentSteps(IF ~make_env_creates_actors /\ ~multiagent
                   THEN [action |-> "act"]
                   ELSE ActionMap(multiagent))]_vars

\* C16 amended: send_actions hands the worker the bare action exactly when
\* the pool holds addressable single-agent workers (make_env creates the
\* actors, multiagent false) and the agent-keyed action map in every other
\* mode, and records one new pending step ref per entry of action_dict for
\* the worker of that slot.
C16_BareActionForAddressableWorkers ==
  [][ret'.op = "send_actions" =>
       SentSteps(IF make_env_creates_actors /\ ~multiagent
                   THEN [action |-> "act"]
                   ELSE ActionMap(multiagent))]_vars

\* send_actions sent two steps to addressable single-agent workers.
C16_Witness ==
  /\ ret.op = "send_actions"
  /\ make_env_creates_actors
  /\ ~multiagent
  /\ Len(pending) = 2
  /\ \A r \in DOMAIN objects : objects[r].method = "step"

\* C17: in every state after construction, in both pool modes and across
\* restarts, the observation space and the action space the dispatcher
\* reports are defined (not None) and are the spaces of the environments.
C17_SpacesDefined ==
  pc # "failed" =>
    /\ _observation_space # None
    /\ _action_space # None
    /\ _observation_space = ObservationSpace
    /\ _action_space = ActionSpace

\* C18: for auto-wrapped workers, the record a returning poll() holds for a
\* call whose environment returned a reset 2-tuple or a step 5-tuple equals
\* the record poll()'s own normalizer for addressable workers computes from
\* that raw tuple, in single- and in multi-agent mode (the wrappers' reward
\* 0.0 and the normalizer's reward 0 are the same number).
C18_WrappedEqualsAddressable ==
  (~make_env_creates_actors /\ PollReturned) =>
    \A i \in DOMAIN round.handled :
      LET obj == round.ready[i].obj
          raw == obj.raw
          k == round.handled[i].env_id
      IN (/\ round.handled[i].how = "value"
          /\ raw.tuple
          /\ Len(raw.v) = (IF obj.method = "reset" THEN 2 ELSE 5))
         => LET n == Normalize(TRUE, multiagent, raw) IN
            /\ n.raised = NoExc
            /\ k \in DOMAIN ret.batch.obs
            /\ ret.batch.obs[k] = n.ob
            /\ ret.batch.rewards[k] = n.rew
            /\ ret.batch.terminateds[k] = n.terminated
            /\ ret.batch.truncateds[k] = n.truncated
            /\ ret.batch.infos[k] = n.info

\* A poll() returned the step result of an auto-wrapped single-agent worker
\* whose environment returned a 5-tuple.
C18_Witness ==
  /\ ~make_env_creates_actors
  /\ ~multiagent
  /\ PollReturned
  /\ \E i \in DOMAIN round.handled :
       /\ round.handled[i].how = "value"
       /\ round.ready[i].obj.method = "step"
       /\ Len(round.ready[i].obj.raw.v) = 5

\* C19: without faults (every call that is ready returned a result poll()
\* can normalize) every submitted task is delivered exactly once: a poll()
\* hands out, under the slot the task was submitted to, the result of every
\* task that is ready and removes exactly those refs from the Pending Table,
\* and no other operation removes or reorders a pending ref.
C19_DeliveredExactlyOnce ==
  /\ [][(/\ ret'.op = "poll"
         /\ \A i \in DOMAIN round'.ready :
              /\ round'.ready[i].obj.st = "value"
              /\ Normalizable(round'.ready[i].obj.val))
        => /\ ret'.raised = NoExc
           /\ \A i \in DOMAIN round'.ready :
                IsNormalizedRecord(ret'.batch, round'.ready[i].actor.idx, round'.ready[i].obj.val)
           /\ pending' = WithoutRefs(pending, {r \in DOMAIN objects : objects[r].st # "running"})
           /\ objects' = WithoutRefs(objects, {r \in DOMAIN objects : objects[r].st # "running"})]_vars
  /\ [][ret'.op # "poll" =>
          /\ Len(pending') >= Len(pending)
          /\ \A r \in DOMAIN pending :
               /\ pending'[r] = pending[r]
               /\ objects'[r].method = objects[r].method
               /\ objects[r].st # "running" => objects'[r] = objects[r]]_vars

\* The refs a poll() step popped: the refs the loop handled.
PoppedRefs == {round'.handled[i].ref : i \in DOMAIN round'.handled}

\* With restarts disabled a poll() that a worker's fault makes raise removes
\* from the Pending Table exactly the ready refs up to and including the
\* faulted one, returns no batch, and leaves every other ref, ready or not,
\* pending with its object as it was.
PartialConsumption ==
  [][(/\ ~restart_failed_sub_environments
      /\ ret'.op = "poll"
      /\ round'.handled # <<>>
      /\ round'.handled[Len(round'.handled)].how = "fault_raised")
     => LET ready == RayWait(pending, objects)
            n == Len(round'.handled)
        IN /\ PoppedRefs = {ready[i] : i \in 1 .. n}
           /\ pending' = WithoutRefs(pending, PoppedRefs)
           /\ objects' = WithoutRefs(objects, PoppedRefs)
           /\ \A i \in (n + 1) .. Len(ready) :
                \E j \in DOMAIN pending' :
                  pending'[j] = pending[ready[i]] /\ objects'[j] = objects[ready[i]]
           /\ ret'.batch = NoBatch]_vars

\* The state right after a poll() that raised a worker's fault, restarts
\* being disabled.
AbortedByFault ==
  /\ ~restart_failed_sub_environments
  /\ PollRaised
  /\ round.handled # <<>>
  /\ round.handled[Len(round.handled)].how = "fault_raised"

\* The ready refs the poll() that just ended did not process and that hold a
\* result poll() can normalize, of a worker of the pool.
LeftOverValues ==
  {i \in (Len(round.handled) + 1) .. Len(round.ready) :
     /\ round.ready[i].obj.st = "value"
     /\ Normalizable(round.ready[i].obj.val)
     /\ round.ready[i].actor \in Range(actors)}

\* The next poll() processed (popped) the i-th ready ref of the aborted one.
ProcessedNext(i) == (i - Len(round.handled)) \in DOMAIN round'.handled

\* C20 as claimed: with restarts disabled a poll() aborted by a fault removes
\* the faulted ref and the ready refs processed before it, whose results no
\* later poll() delivers, and leaves the ready refs it did not process
\* pending; the result of each of them is delivered by the later poll() that
\* processes it (here: the next poll(), when it processes the ref).
C20_LeftOverDelivered ==
  /\ PartialConsumption
  /\ [][(AbortedByFault /\ ret'.op = "poll") =>
          \A i \in LeftOverValues :
            ProcessedNext(i) =>
              /\ ret'.raised = NoExc
              /\ IsNormalizedRecord(ret'.batch, round.ready[i].actor.idx,
                                    round.ready[i].obj.val)]_vars

\* C20 amended: with restarts disabled a poll() aborted by a fault removes the
\* faulted ref and the ready refs processed before it, whose results no later
\* poll() delivers, and leaves the ready refs it did not process pending; the
\* next poll() finds all of them ready, in the same order; the result of one
\* it processes is in its batch if it returns and is discarded if it raises,
\* and one it does not process stays pending.
C20_LeftOverDeliveredUnlessAborted ==
  /\ PartialConsumption
  /\ [][(AbortedByFault /\ ret'.op = "poll") =>
          /\ Len(round'.ready) >= Len(round.ready) - Len(round.handled)
          /\ \A i \in (Len(round.handled) + 1) .. Len(round.ready) :
               /\ round'.ready[i - Len(round.handled)] = round.ready[i]
               /\ ~ProcessedNext(i) =>
                    \E j \in DOMAIN pending' :
                      /\ pending'[j] = round.ready[i].actor
                      /\ objects'[j] = round.ready[i].obj
          /\ \A i \in LeftOverValues :
               ProcessedNext(i) =>
                 IF ret'.raised = NoExc
                   THEN IsNormalizedRecord(ret'.batch, round.ready[i].actor.idx,
                                           round.ready[i].obj.val)
                   ELSE ret'.batch = NoBatch]_vars

\* A poll() raised a fault and left a ready result unprocessed in the Pending
\* Table.
C20_Witness ==
  /\ AbortedByFault
  /\ LeftOverValues # {}
  /\ \E r \in DOMAIN objects : objects[r].st = "value"

\* The on_sub_environment_created invocation cb reports `actor` as the
\* sub-environment of slot idx.
ReportsCreated(cb, idx, actor) == cb.idx = idx /\ cb.sub_environment = actor

\* C21: with an owning rollout worker set, every worker the dispatcher builds
\* for a slot is reported by exactly one on_sub_environment_created call that
\* is handed the new worker of that slot: the constructor does not fail on a
\* slot that is not yet in the pool, the wrapper actors the constructor
\* builds are reported one per slot in slot order, and a step that rebuilds
\* slots (try_restart, or poll() restarting faulted workers) adds exactly one
\* invocation per rebuilt slot, handed the worker now in that slot and not
\* the one it replaced.
C21_CallbackGetsCreatedWorker ==
  /\ []((ret.op = "__init__" /\ worker) =>
          /\ ret.raised = NoExc
          /\ ~make_env_creates_actors =>
               /\ Len(callbacks) = Len(actors)
               /\ \A k \in DOMAIN actors : ReportsCreated(callbacks[k], k - 1, actors[k]))
  /\ [][worker =>
          LET rebuilt == {k \in DOMAIN actors : actors'[k] # actors[k]}
              added == (Len(callbacks) + 1) .. Len(callbacks')
          IN /\ Len(callbacks') = Len(callbacks) + Cardinality(rebuilt)
             /\ \A j \in DOMAIN callbacks : callbacks'[j] = callbacks[j]
             /\ \A k \in rebuilt :
                  \E j \in added : ReportsCreated(callbacks'[j], k - 1, actors'[k])]_vars

====
